---- MODULE Spec2Model ----
(***************************************************************************)
(* Model of Lijntje/FinaleCodeAIVisionBLE.ino: a BLE client that scans for *)
(* a named peripheral, connects to its Nordic UART service and sends       *)
(* canned commands chosen from the output of a vision classifier.          *)
(*                                                                         *)
(* loop() is split at the points where it blocks (the scan sweep, each     *)
(* library call of connectToServer, the classifier poll, each delay): pc   *)
(* is its position.  The transport's disconnect event is asynchronous and  *)
(* may arrive between any two steps of the loop, connectToServer included. *)
(* The BLE library is not part of the repository; what the model takes     *)
(* from it is written at each use.                                         *)
(***************************************************************************)
EXTENDS Integers, Sequences, FiniteSets, TLC

\* ------------------------------------------------------------------ bounds
\* advertisements delivered in one scan sweep
MaxAds == 2
\* entries in one classifier output
MaxClasses == 2
\* time that passes in one step of a cooldown delay, in ms
TickMs == 1000
\* length of a line given to sendCommandLine directly
MaxLine == 3
\* connections the peripheral accepts; it refuses every later attempt
MaxConns == 3

\* --------------------------------------------------------------- constants
\* nullptr
Null == 0

TARGET_NAME == "ogintevullen_SSP"

APPEND_NEWLINE == FALSE

\* a near miss of the target name, and an unrelated one
OtherNames == {"ogintevullen_SS", "Bittle"}
\* the name getName() gives when the advertisement carries none
NoName == ""
Addrs == {1, 2}

\* one advertisement: haveName(), getName(), getAddress()
Ads ==
  [haveName : {TRUE}, name : {TARGET_NAME} \cup OtherNames, addr : Addrs]
    \cup [haveName : {FALSE}, name : {NoName}, addr : Addrs]

\* classifier output: target is the class id, score the confidence
TargetIds == 0..7
Scores == {80, 81}
Entries == [target : TargetIds, score : Scores]

NoEntry == [idx |-> -1, target |-> -1, score |-> -1, ready |-> FALSE]

RECURSIVE SeqsUpTo(_, _)
SeqsUpTo(S, n) ==
  IF n = 0 THEN {<<>>}
  ELSE LET shorter == SeqsUpTo(S, n - 1)
       IN shorter \cup {Append(t, x) : t \in {u \in shorter : Len(u) = n - 1}, x \in S}

\* the vertical tab, 0x0B (a TLA+ string has no escape for it)
VT == "VT"

\* the lines given to sendCommandLine directly: letters, blanks, line ends and
\* vertical tabs
ProbeChars == {"k", " ", "\n", VT}
ProbeLines == SeqsUpTo(ProbeChars, MaxLine)

NoProbe == [in |-> <<>>, out |-> <<>>, ready |-> FALSE, done |-> FALSE]

\* ------------------------------------------------------------------- state
VARIABLES
  pc,              \* position of loop()
  doConnect,       \* line 37
  connected,       \* line 38
  pServerAddress,  \* line 39: Null or the stored address
  pClient,         \* line 41: TRUE once the client object exists
  clientConn,      \* pClient->isConnected()
  discReq,         \* pClient->disconnect() was called, its event is still to come
  gen,             \* number of the last transport connection made (0: none yet);
                   \* a handle carries the number of the connection it was found on
  pRxChar,         \* line 42: Null or a handle
  pTxChar,         \* line 43
  subscribed,      \* registerForNotify was called since the last connection was made
  scanStopped,     \* pBLEScan->stop() was called in this sweep
  sweep,           \* advertisements delivered in this sweep, in order
  addrBefore,      \* pServerAddress when the sweep started
  size,            \* AI.classes().size() of the result being dispatched
  i,               \* loop index of the dispatch pass
  remaining,       \* ms left of the delay in progress
  elapsed,         \* ms waited in the delay in progress
  cooldown,        \* the delay applied for the entry last processed (0: none)
  tx,              \* what was written to pRxChar for the entry last processed
  wbit,            \* flips at every pRxChar->writeValue
  last,            \* the entry last processed, and whether the link was Ready
  connRes,         \* how the connectToServer call since the last sweep ended
                   \* ("ok": subscribed, "okNoNotify": TX cannot notify), "none"
                   \* while there was no call or the call has not returned
  addrFresh,       \* the stored address was recorded after the last failure
  callFresh,       \* addrFresh at the last connectToServer call
  dropped,         \* a disconnect arrived; no cleanup, sweep or connection since
  nbit,            \* flips at every notifyCallback
  polled,          \* AI.invoke() in this loop iteration: "no", "new" or "none"
  probe,           \* a line given to sendCommandLine directly, and what it wrote
  lost             \* a disconnect arrived while the link was Ready, and the channel
                   \* pointers were neither cleared nor assigned anew since

vars ==
  <<pc, doConnect, connected, pServerAddress, pClient, clientConn, discReq,
    gen, pRxChar, pTxChar, subscribed, scanStopped, sweep, addrBefore,
    size, i, remaining, elapsed, cooldown, tx, wbit, last, connRes,
    addrFresh, callFresh, dropped, nbit, polled, probe, lost>>

linkVars == <<connected, pClient, clientConn, discReq, gen, pRxChar, pTxChar, subscribed>>
scanVars == <<scanStopped, sweep, addrBefore>>
passVars == <<size, i, remaining, elapsed, cooldown, tx, wbit, last>>
histVars == <<connRes, addrFresh, callFresh, dropped>>
auxVars == <<nbit, polled, probe, lost>>

\* ---------------------------------------------------------------- strings
\* A command is a sequence of characters.
kwkF == <<"k", "w", "k", "F">>
kpu == <<"k", "p", "u">>
kcr == <<"k", "c", "r">>
ktrap == <<"k", "t", "r", "a", "p", " ", "o", "p", "l", "o", "p", "e", "n">>
kck == <<"k", "c", "k">>
kvtL == <<"k", "v", "t", "L", " ", "9", "0">>
kup == <<"k", "u", "p">>

\* isspace(): space, \t, \n, \v, \f and \r
IsSpace(c) == c \in {" ", "\t", "\n", VT, "\f", "\r"}

RECURSIVE TrimLeft(_)
TrimLeft(s) ==
  IF s = <<>> THEN s
  ELSE IF IsSpace(Head(s)) THEN TrimLeft(Tail(s)) ELSE s

RECURSIVE TrimRight(_)
TrimRight(s) ==
  IF s = <<>> THEN s
  ELSE IF IsSpace(s[Len(s)]) THEN TrimRight(SubSeq(s, 1, Len(s) - 1)) ELSE s

\* mutant: only the leading whitespace is removed
Trim_LeftOnly(s) == TrimLeft(s)

\* String::trim()
Trim(s) == TrimRight(TrimLeft(s))

Min(a, b) == IF a < b THEN a ELSE b

\* ------------------------------------------------------------------ Init
\* The state after setup(): nothing found, nothing connected (lines 35-43).
Init ==
  /\ pc = "top"
  /\ doConnect = FALSE
  /\ connected = FALSE
  /\ pServerAddress = Null
  /\ pClient = FALSE
  /\ clientConn = FALSE
  /\ discReq = FALSE
  /\ gen = 0
  /\ pRxChar = Null
  /\ pTxChar = Null
  /\ subscribed = FALSE
  /\ scanStopped = FALSE
  /\ sweep = <<>>
  /\ addrBefore = Null
  /\ size = 0
  /\ i = 0
  /\ remaining = 0
  /\ elapsed = 0
  /\ cooldown = 0
  /\ tx = <<>>
  /\ wbit = 0
  /\ last = NoEntry
  /\ connRes = "none"
  /\ addrFresh = FALSE
  /\ callFresh = FALSE
  /\ dropped = FALSE
  /\ nbit = 0
  /\ polled = "no"
  /\ probe = NoProbe
  /\ lost = FALSE

\* ------------------------------------------------------------ link state
\* The link is Ready: the flag is set, the client reports a connection and
\* the write channel is bound (the three tests of line 147).
Ready == connected /\ pClient /\ clientConn /\ pRxChar # Null
Idle == ~connected /\ ~doConnect
ChannelsBound == pRxChar # Null /\ pTxChar # Null
ChannelsUnbound == pRxChar = Null /\ pTxChar = Null

\* ------------------------------------------------------------- callbacks
\* MyClientCallbacks::onConnect sets the flag.  The library calls it from
\* within pClient->connect(), after it marked the client connected.
onConnect ==
  /\ connected' = TRUE
  /\ clientConn' = TRUE
  /\ gen' = gen + 1

\* MyClientCallbacks::onDisconnect clears the flag.  The library calls it from
\* its disconnect event, after it marked the client disconnected (and with
\* that dropped any pending disconnect request).
onDisconnect ==
  /\ connected' = FALSE
  /\ clientConn' = FALSE
  /\ discReq' = FALSE
  /\ dropped' = TRUE
  /\ lost' = (lost \/ (connected /\ pClient /\ clientConn /\ pRxChar # Null))
  /\ UNCHANGED <<pc, doConnect, pServerAddress, pClient, gen, pRxChar, pTxChar,
                 subscribed>>
  /\ UNCHANGED <<scanVars, passVars, connRes, addrFresh, callFresh>>
  /\ UNCHANGED <<nbit, polled, probe>>

\* The peripheral drops the link, or it goes out of range.
PeerDisconnect ==
  /\ clientConn
  /\ ~discReq
  /\ onDisconnect

\* The disconnect that pClient->disconnect() asked for completes.
DisconnectComplete ==
  /\ clientConn
  /\ discReq
  /\ onDisconnect

\* notifyCallback, lines 46-55: prints the bytes the robot sent.  The library
\* calls it for a notification of the TX channel once registerForNotify
\* was called on the connection that is up.
notifyCallback ==
  /\ clientConn
  /\ subscribed
  /\ nbit' = 1 - nbit
  /\ UNCHANGED <<pc, doConnect, pServerAddress, linkVars, scanVars, passVars, histVars,
                 polled, probe, lost>>

\* ------------------------------------------------------------------ scan
\* mutant: any advertisement that carries a name is taken for the target
NameMatches_AnyNamed(ad) == ad.haveName

\* mutant: only the first 15 characters of the name are compared
NameMatches_Near(ad) == ad.haveName /\ ad.name \in {TARGET_NAME, "ogintevullen_SS"}

\* line 77: the name exists and equals the target name exactly
NameMatches(ad) == ad.haveName /\ ad.name = TARGET_NAME

\* mutant: the old address is deleted and no new one is stored
StoredAddress_Deleted(ad) == Null

\* lines 81-85: the old address is deleted, the advertised one stored
StoredAddress(ad) == ad.addr

\* MyAdvertisedDeviceCallbacks::onResult, for one advertisement of the sweep.
\* The library delivers no result once the scan was stopped.
onResult(ad) ==
  /\ pc = "scanning"
  /\ ~scanStopped
  /\ Len(sweep) < MaxAds
  /\ sweep' = Append(sweep, ad)
  /\ IF NameMatches(ad)
     THEN /\ pServerAddress' = StoredAddress(ad)
          /\ doConnect' = TRUE
          /\ scanStopped' = TRUE
          /\ addrFresh' = TRUE
     ELSE UNCHANGED <<pServerAddress, doConnect, scanStopped, addrFresh>>
  /\ UNCHANGED <<pc, addrBefore, linkVars, passVars, connRes, callFresh, dropped>>
  /\ UNCHANGED auxVars

Advertisement == \E ad \in Ads : onResult(ad)

\* mutant: the connected flag is not tested
ScanGuard_NoFlag == ~doConnect

\* mutant: a sweep is started only while no address is stored
ScanGuard_Once == ~connected /\ ~doConnect /\ pServerAddress = Null

\* line 180: scan only when not connected and no connect request is pending
ScanGuard == ~connected /\ ~doConnect

\* loop(), lines 180-181: start the sweep, or skip it.
LoopTop ==
  /\ pc = "top"
  /\ IF ScanGuard
     THEN /\ pc' = "scanning"
          /\ scanStopped' = FALSE
          /\ sweep' = <<>>
          /\ addrBefore' = pServerAddress
          /\ connRes' = "none"
          /\ dropped' = FALSE
     ELSE /\ pc' = "conn"
          /\ UNCHANGED <<scanVars, connRes, dropped>>
  /\ UNCHANGED <<doConnect, pServerAddress, linkVars, passVars, addrFresh, callFresh>>
  /\ UNCHANGED auxVars

\* pBLEScan->start returns: the duration elapsed or the scan was stopped.
ScanDone ==
  /\ pc = "scanning"
  /\ pc' = "scanned"
  /\ UNCHANGED <<doConnect, pServerAddress, linkVars, scanVars, passVars, histVars>>
  /\ UNCHANGED auxVars

\* loop(), lines 182-186: report, clearResults(), delay(250).
ScanTail ==
  /\ pc = "scanned"
  /\ pc' = "conn"
  /\ sweep' = <<>>
  /\ addrBefore' = Null
  /\ scanStopped' = FALSE
  /\ UNCHANGED <<doConnect, pServerAddress, linkVars, passVars, histVars, auxVars>>

\* --------------------------------------------------------------- connect
ConnFailures == {"noAddress", "refused", "noService", "noRx", "noTx"}

\* the positions of loop() inside connectToServer: before pClient->connect,
\* and blocked in getService, in each getCharacteristic, before line 134
ConnPcs == {"connect", "service", "rxchar", "txchar", "subscribe"}

\* mutant: the connect request is not cleared
RequestAfterTake_Kept == doConnect

\* line 191: the connect request after the loop took it
RequestAfterTake == FALSE

\* loop(), lines 190-192: take the connect request and call connectToServer.
ConnectStep ==
  /\ pc = "conn"
  /\ IF doConnect
     THEN /\ doConnect' = RequestAfterTake
          /\ pc' = "connect"
          /\ callFresh' = addrFresh
     ELSE /\ pc' = "poll"
          /\ UNCHANGED <<doConnect, callFresh>>
  /\ UNCHANGED <<pServerAddress, linkVars, scanVars, passVars, auxVars>>
  /\ UNCHANGED <<connRes, addrFresh, dropped>>

\* connectToServer returns false with the reason res; loop() goes on to the
\* delay of line 197.
ReturnFalse(res) ==
  /\ connRes' = res
  /\ addrFresh' = FALSE
  /\ pc' = "retry"

\* pClient->disconnect(): asks the library to close the link, and the
\* disconnect event follows later.  On a link that is already down there is
\* nothing to close and no event follows.
Disconnect == discReq' = clientConn

\* getService and getCharacteristic find what the peripheral has, and nothing
\* once the link is down.
Found(has) == clientConn /\ has

\* connectToServer(), lines 95-108: the address test, the client, and
\* pClient->connect, which the peripheral accepts or not (after MaxConns
\* connections it refuses).  A connection that is made has no subscription yet.
Connect ==
  /\ pc = "connect"
  /\ IF pServerAddress = Null
     THEN /\ ReturnFalse("noAddress")
          /\ UNCHANGED <<linkVars, dropped>>
     ELSE /\ pClient' = TRUE
          /\ \E accept \in (IF gen < MaxConns THEN BOOLEAN ELSE {FALSE}) :
               IF accept
               THEN /\ onConnect
                    /\ subscribed' = FALSE
                    /\ dropped' = FALSE
                    /\ pc' = "service"
                    /\ UNCHANGED <<connRes, addrFresh>>
               ELSE /\ ReturnFalse("refused")
                    /\ UNCHANGED <<connected, clientConn, gen, subscribed, dropped>>
          /\ UNCHANGED <<discReq, pRxChar, pTxChar>>
  /\ UNCHANGED <<doConnect, pServerAddress, scanVars, passVars, callFresh, auxVars>>

\* connectToServer(), lines 111-116: getService returns.
GetService ==
  /\ pc = "service"
  /\ \E hasService \in BOOLEAN :
       IF Found(hasService)
       THEN /\ pc' = "rxchar"
            /\ UNCHANGED <<discReq, connRes, addrFresh>>
       ELSE /\ ReturnFalse("noService")
            /\ Disconnect
  /\ UNCHANGED <<connected, pClient, clientConn, gen, pRxChar, pTxChar, subscribed>>
  /\ UNCHANGED <<doConnect, pServerAddress, scanVars, passVars, callFresh, dropped>>
  /\ UNCHANGED auxVars

\* connectToServer(), line 119: getCharacteristic(NUS_RX_UUID) returns.
GetRx ==
  /\ pc = "rxchar"
  /\ \E hasRx \in BOOLEAN : pRxChar' = IF Found(hasRx) THEN gen ELSE Null
  /\ pc' = "txchar"
  /\ UNCHANGED <<connected, pClient, clientConn, discReq, gen, pTxChar, subscribed>>
  /\ UNCHANGED <<doConnect, pServerAddress, scanVars, passVars, histVars, auxVars>>

\* connectToServer(), lines 120-131: getCharacteristic(NUS_TX_UUID) returns,
\* then the two pointers are tested.  Both pointers are assigned anew now; a handle
\* of a lost connection is still held only when the link dropped since line 119.
GetTx ==
  /\ pc = "txchar"
  /\ \E hasTx \in BOOLEAN : pTxChar' = IF Found(hasTx) THEN gen ELSE Null
  /\ IF pRxChar = Null
     THEN ReturnFalse("noRx") /\ Disconnect
     ELSE IF pTxChar' = Null
     THEN ReturnFalse("noTx") /\ Disconnect
     ELSE /\ pc' = "subscribe"
          /\ UNCHANGED <<discReq, connRes, addrFresh>>
  /\ UNCHANGED <<connected, pClient, clientConn, gen, pRxChar, subscribed>>
  /\ UNCHANGED <<doConnect, pServerAddress, scanVars, passVars, callFresh, dropped>>
  /\ lost' = (lost /\ ~clientConn /\ pRxChar # Null)
  /\ UNCHANGED <<nbit, polled, probe>>

\* mutant: the subscription is made without asking canNotify()
SubscribeIf_Always(canNotify) == TRUE

\* lines 134-139: registerForNotify is called when the channel can notify
SubscribeIf(canNotify) == canNotify

\* connectToServer(), lines 134-142: subscribe when TX can notify, return
\* true.  registerForNotify reads and writes no variable of the program, and a
\* disconnect that arrives while it runs leaves the state of one that arrives
\* just before or just after this step.
Subscribe ==
  /\ pc = "subscribe"
  /\ \E canNotify \in BOOLEAN :
       /\ subscribed' = SubscribeIf(canNotify)
       /\ connRes' = IF canNotify THEN "ok" ELSE "okNoNotify"
  /\ pc' = "poll"
  /\ UNCHANGED <<connected, pClient, clientConn, discReq, gen, pRxChar, pTxChar>>
  /\ UNCHANGED <<doConnect, pServerAddress, scanVars, passVars, auxVars>>
  /\ UNCHANGED <<addrFresh, callFresh, dropped>>

\* connectToServer(), lines 94-143, one library call at a time.
connectToServer ==
  \/ Connect
  \/ GetService
  \/ GetRx
  \/ GetTx
  \/ Subscribe

\* loop(), lines 194-198: after a failed attempt, delay(1000) returns.
RetryDelay ==
  /\ pc = "retry"
  /\ pc' = "poll"
  /\ UNCHANGED <<doConnect, pServerAddress, linkVars, scanVars, passVars, histVars>>
  /\ UNCHANGED auxVars

\* -------------------------------------------------------------- dispatch
\* mutant: only the channel pointer is tested
SendGuard_ChannelOnly == pRxChar # Null

\* line 147: the early return of sendCommandLine is not taken
SendGuard == connected /\ pClient /\ clientConn /\ pRxChar # Null

\* sendCommandLine(), lines 146-161: the values written to pRxChar.
sendCommandLine(lineIn) ==
  IF ~SendGuard THEN <<>>
  ELSE LET line == Trim(lineIn)
       IN IF Len(line) = 0 THEN <<>>
          ELSE <<IF APPEND_NEWLINE THEN Append(line, "\n") ELSE line>>

\* sendCommandLine called with any line while the loop is between the connect
\* step and the classifier poll: the place of its other caller, lines 202-205.
SendProbe ==
  /\ pc = "poll"
  /\ ~probe.done
  /\ \E line \in ProbeLines :
       LET out == sendCommandLine(line)
       IN /\ probe' = [in |-> line, out |-> out, ready |-> Ready, done |-> TRUE]
          /\ wbit' = IF out # <<>> THEN 1 - wbit ELSE wbit
  /\ UNCHANGED <<pc, doConnect, pServerAddress, linkVars, scanVars, histVars>>
  /\ UNCHANGED <<size, i, remaining, elapsed, cooldown, tx, last, nbit, polled, lost>>

\* line 212
ScoreQualifies(score) == score > 80

Hit(cmd, ms) == [hit |-> TRUE, cmd |-> cmd, ms |-> ms]
Miss == [hit |-> FALSE, cmd |-> <<>>, ms |-> 0]

\* mutant: the delays of class 0 and class 1 are exchanged
Dispatch_Exchanged(target) ==
  IF target = 0 THEN Hit(kwkF, 5000)
  ELSE IF target = 1 THEN Hit(kpu, 3000)
  ELSE IF target = 2 THEN Hit(kcr, 3000)
  ELSE IF target = 3 THEN Hit(ktrap, 3000)
  ELSE IF target = 4 THEN Hit(kck, 3000)
  ELSE IF target = 5 THEN Hit(kvtL, 3000)
  ELSE IF target = 6 THEN Hit(kup, 4000)
  ELSE Miss

\* The if-chain of lines 213-247: the command and the delay for a class id.
Dispatch(target) ==
  IF target = 0 THEN Hit(kwkF, 3000)
  ELSE IF target = 1 THEN Hit(kpu, 5000)
  ELSE IF target = 2 THEN Hit(kcr, 3000)
  ELSE IF target = 3 THEN Hit(ktrap, 3000)
  ELSE IF target = 4 THEN Hit(kck, 3000)
  ELSE IF target = 5 THEN Hit(kvtL, 3000)
  ELSE IF target = 6 THEN Hit(kup, 4000)
  ELSE Miss

\* mutant: the classifier is polled whatever the connected flag says
PollGuard_Always == TRUE

\* line 208: the left operand of &&
PollGuard == connected

\* loop(), line 208: poll the classifier when connected; invoke() gives 0 when
\* there is a new result, and AI.classes() then holds it.  AI.classes() is the
\* classifier's storage: the loop reads its size at every turn and entry i at
\* turn i only, so the model draws the size here and entry i when it is read.
Poll ==
  /\ pc = "poll"
  /\ IF PollGuard
     THEN \E ok \in BOOLEAN :
            IF ok
            THEN /\ \E n \in 0..MaxClasses : size' = n
                 /\ pc' = "entry"
                 /\ polled' = "new"
            ELSE /\ pc' = "cleanup"
                 /\ polled' = "none"
                 /\ UNCHANGED size
     ELSE /\ pc' = "cleanup"
          /\ UNCHANGED <<size, polled>>
  /\ i' = 0
  /\ probe' = NoProbe
  /\ UNCHANGED <<remaining, elapsed, cooldown, tx, wbit, last, nbit, lost>>
  /\ UNCHANGED <<doConnect, pServerAddress, linkVars, scanVars, histVars>>

\* mutant: the index is not advanced
NextIndex_Stuck == i

\* line 210: i++
NextIndex == i + 1

\* One turn of the for loop, lines 210-249, for the entry at index i: when
\* its score qualifies and its class id has a command, send and start the delay.
ProcessEntry ==
  /\ pc = "entry"
  /\ i < size
  /\ \E e \in Entries :
     LET d == Dispatch(e.target)
         out == sendCommandLine(d.cmd)
     IN /\ last' = [idx |-> i, target |-> e.target, score |-> e.score, ready |-> Ready]
        /\ IF ScoreQualifies(e.score) /\ d.hit
           THEN /\ tx' = out
                /\ wbit' = IF out # <<>> THEN 1 - wbit ELSE wbit
                /\ cooldown' = d.ms
                /\ remaining' = d.ms
                /\ elapsed' = 0
                /\ pc' = "delay"
                /\ UNCHANGED i
           ELSE /\ tx' = <<>>
                /\ cooldown' = 0
                /\ i' = NextIndex
                /\ UNCHANGED <<wbit, remaining, elapsed, pc>>
  /\ UNCHANGED size
  /\ UNCHANGED <<doConnect, pServerAddress, linkVars, scanVars, histVars>>
  /\ UNCHANGED auxVars

\* Time passes while delay() blocks the loop.
Tick ==
  /\ pc = "delay"
  /\ remaining > 0
  /\ LET step == Min(TickMs, remaining)
     IN /\ remaining' = remaining - step
        /\ elapsed' = elapsed + step
  /\ UNCHANGED <<pc, size, i, cooldown, tx, wbit, last>>
  /\ UNCHANGED <<doConnect, pServerAddress, linkVars, scanVars, histVars>>
  /\ UNCHANGED auxVars

\* mutant: the delay returns one step early
DelayElapsed_Early == remaining <= TickMs

\* delay() returns when its time is over
DelayElapsed == remaining = 0

\* The delay of the entry is over: on to the next entry.
DelayDone ==
  /\ pc = "delay"
  /\ DelayElapsed
  /\ pc' = "entry"
  /\ i' = NextIndex
  /\ UNCHANGED <<size, remaining, elapsed, cooldown, tx, wbit, last>>
  /\ UNCHANGED <<doConnect, pServerAddress, linkVars, scanVars, histVars>>
  /\ UNCHANGED auxVars

\* The for loop ends (line 210, i == size).
PassEnd ==
  /\ pc = "entry"
  /\ i >= size
  /\ pc' = "cleanup"
  /\ size' = 0
  /\ i' = 0
  /\ remaining' = 0
  /\ elapsed' = 0
  /\ cooldown' = 0
  /\ tx' = <<>>
  /\ last' = NoEntry
  /\ UNCHANGED wbit
  /\ UNCHANGED <<doConnect, pServerAddress, linkVars, scanVars, histVars>>
  /\ UNCHANGED auxVars

\* ---------------------------------------------------------------- cleanup
\* line 253
CleanupGuard == pClient /\ ~clientConn

\* loop(), lines 253-260: when the client is not connected, clear the flag
\* and the stale channel pointers.
Cleanup ==
  /\ pc = "cleanup"
  /\ pc' = "top"
  /\ IF CleanupGuard
     THEN /\ connected' = FALSE
          /\ pRxChar' = Null
          /\ pTxChar' = Null
          /\ dropped' = FALSE
          /\ lost' = FALSE
     ELSE UNCHANGED <<connected, pRxChar, pTxChar, dropped, lost>>
  /\ polled' = "no"
  /\ UNCHANGED <<pClient, clientConn, discReq, gen, subscribed, nbit, probe>>
  /\ UNCHANGED <<doConnect, pServerAddress, scanVars, passVars, connRes, addrFresh,
                 callFresh>>

\* ------------------------------------------------------------------ Next
\* the steps of loop()
LoopStep ==
  \/ LoopTop
  \/ ScanDone
  \/ ScanTail
  \/ ConnectStep
  \/ connectToServer
  \/ RetryDelay
  \/ Poll
  \/ ProcessEntry
  \/ Tick
  \/ DelayDone
  \/ PassEnd
  \/ Cleanup

Next ==
  \/ LoopStep
  \/ Advertisement
  \/ PeerDisconnect
  \/ DisconnectComplete
  \/ notifyCallback

Spec == Init /\ [][Next]_vars

\* The program together with direct calls of sendCommandLine.
SendSpec == Init /\ [][Next \/ SendProbe]_vars

\* The loop keeps running, time passes, and a disconnect that was asked for
\* completes.
FairSpec ==
  /\ Spec
  /\ WF_vars(LoopStep)
  /\ WF_vars(DisconnectComplete)

TypeOK ==
  /\ lost \in BOOLEAN /\ nbit \in {0, 1} /\ polled \in {"no", "new", "none"}
  /\ pc \in {"top", "scanning", "scanned", "conn", "retry", "poll", "entry", "delay",
            "cleanup"} \cup ConnPcs
  /\ doConnect \in BOOLEAN /\ connected \in BOOLEAN
  /\ pServerAddress \in Addrs \cup {Null}
  /\ pClient \in BOOLEAN /\ clientConn \in BOOLEAN /\ discReq \in BOOLEAN
  /\ gen \in 0..MaxConns
  /\ pRxChar \in {Null} \cup 1..gen /\ pTxChar \in {Null} \cup 1..gen
  /\ subscribed \in BOOLEAN /\ scanStopped \in BOOLEAN
  /\ Len(sweep) <= MaxAds /\ size \in 0..MaxClasses
  /\ i \in 0..MaxClasses
  /\ remaining \in 0..5000 /\ elapsed \in 0..5000 /\ cooldown \in {0, 3000, 4000, 5000}
  /\ wbit \in {0, 1}

\* ================================================================ claims

\* C1: a write to the inbound-write channel happens only in a step that
\* starts with the link Ready (connected set, client connected, write channel
\* bound); in any other link state nothing is transmitted.
C1_WriteOnlyWhenReady == [][wbit' # wbit => Ready]_vars

\* a command was written for an entry processed while Ready
C1_Witness == pc = "delay" /\ tx # <<>> /\ last.ready

\* C2: when connectToServer fails, on its return the link is Idle (connected
\* false, doConnect false) and both channels are unbound.
C2_FailureLeavesIdleUnbound ==
  [][(connRes' # connRes /\ connRes' \in ConnFailures)
       => (~connected' /\ ~doConnect' /\ pRxChar' = Null /\ pTxChar' = Null)]_vars

\* C3: a disconnect received while Ready clears the connected flag at once
\* and leaves the loop where it is, a running cooldown included; until the
\* loop's cleanup or a new connection nothing is written; the cooldown ends
\* only when its time is over; and the channels of the lost connection are
\* cleared at the latest by the loop's next cleanup step.
C3_DisconnectWhileReady ==
  /\ [][(Ready /\ ~clientConn')
          => (~connected' /\ ~doConnect' /\ pc' = pc /\ remaining' = remaining
              /\ i' = i /\ size' = size)]_vars
  /\ [][dropped => wbit' = wbit]_vars
  /\ [][(pc = "delay" /\ pc' # "delay") => remaining = 0]_vars
  /\ [][(lost /\ pc = "cleanup" /\ pc' = "top")
          => (~connected' /\ pRxChar' = Null /\ pTxChar' = Null)]_vars

\* C4: in every reachable state both channels are bound exactly when the link
\* is Ready.
C4_BoundIffReady == ChannelsBound <=> (connected /\ clientConn)

\* C5: after a failed connection attempt and after a disconnect the loop
\* starts a scan again, and it never stays for ever without scanning and
\* without being connected.
C5_ScanResumes ==
  /\ (connRes \in ConnFailures) ~> (pc = "scanning")
  /\ dropped ~> (pc = "scanning")
  /\ (~connected) ~> (pc = "scanning" \/ connected)

\* a sweep that starts after a connection attempt was made
C5_Witness == pc = "scanning" /\ pClient /\ sweep = <<>> /\ pServerAddress # Null

\* the advertisement names the target: it has a name, and the name is the
\* target's
IsTarget(ad) == ad.haveName /\ ad.name = "ogintevullen_SSP"

RECURSIVE FirstTarget(_, _)
FirstTarget(s, k) ==
  IF k > Len(s) THEN 0
  ELSE IF IsTarget(s[k]) THEN k ELSE FirstTarget(s, k + 1)

\* C6: during and after a sweep the stored address is that of the first
\* advertisement of the sweep that names the target, with the connect request
\* set; as long as no advertisement names the target the stored address is the
\* one from before the sweep and the connect request is not set.
C6_FirstMatchStored ==
  pc \in {"scanning", "scanned"} =>
    LET m == FirstTarget(sweep, 1)
    IN IF m = 0
       THEN pServerAddress = addrBefore /\ ~doConnect
       ELSE pServerAddress = sweep[m].addr /\ doConnect

\* a sweep met another name first and then the target, at a new address
C6_Witness ==
  /\ pc = "scanned" /\ Len(sweep) = 2
  /\ sweep[1].haveName /\ ~IsTarget(sweep[1]) /\ IsTarget(sweep[2])
  /\ pServerAddress = sweep[2].addr /\ sweep[1].addr # sweep[2].addr
  /\ addrBefore \notin {Null, pServerAddress}

\* the command table as the claim gives it
ClaimTable ==
  [t \in 0..6 |->
     CASE t = 0 -> [cmd |-> <<"k", "w", "k", "F">>, ms |-> 3000]
       [] t = 1 -> [cmd |-> <<"k", "p", "u">>, ms |-> 5000]
       [] t = 2 -> [cmd |-> <<"k", "c", "r">>, ms |-> 3000]
       [] t = 3 -> [cmd |-> <<"k", "t", "r", "a", "p", " ", "o", "p", "l", "o", "p", "e", "n">>,
                    ms |-> 3000]
       [] t = 4 -> [cmd |-> <<"k", "c", "k">>, ms |-> 3000]
       [] t = 5 -> [cmd |-> <<"k", "v", "t", "L", " ", "9", "0">>, ms |-> 3000]
       [] t = 6 -> [cmd |-> <<"k", "u", "p">>, ms |-> 4000]]

\* C7: for an entry processed while Ready, a score above 80 with a class id
\* in 0..6 writes exactly the command of the table and applies its cooldown;
\* a score of 80 or less writes nothing and applies no cooldown.
C7_TableLookup ==
  (last # NoEntry /\ last.ready) =>
    IF last.score > 80
    THEN last.target \in 0..6 =>
           /\ tx = <<ClaimTable[last.target].cmd>>
           /\ cooldown = ClaimTable[last.target].ms
    ELSE tx = <<>> /\ cooldown = 0

\* class 1 with score 81 sent "kpu" with 5000 ms
C7_Witness ==
  /\ last.ready /\ last.target = 1 /\ last.score = 81
  /\ tx = <<kpu>> /\ pc = "delay" /\ remaining = 5000

\* C8 as stated: after a failed connectToServer no address is stored.
C8_AddressDiscarded == connRes \in ConnFailures => pServerAddress = Null

\* C8, amended: a failed connectToServer keeps the stored address, and every
\* call of connectToServer uses an address that a sweep recorded after the
\* last failure.
C8_FreshAddressPerAttempt ==
  /\ connRes \in ConnFailures => pServerAddress # Null
  /\ connRes # "none" => callFresh

\* a later attempt, on the second connection the peripheral accepted, failed
C8_Witness ==
  /\ connRes \in ConnFailures /\ ~addrFresh /\ callFresh
  /\ pc = "poll" /\ gen = 2 /\ connected

\* C9: a sweep starts only in a state where connected is false, no connect
\* request is pending and the transport connection is down.
C9_ScanOnlyWhenIdle ==
  [][(pc # "scanning" /\ pc' = "scanning")
       => (~connected /\ ~doConnect /\ ~clientConn)]_vars

\* a sweep running after the link was lost, the stale pointers still set
C9_Witness == pc = "scanning" /\ pClient /\ pRxChar # Null /\ sweep # <<>>

\* C10: the entries of a pass are processed in index order; while a cooldown
\* runs no entry is processed, nothing is written and the classifier is not
\* polled; the cooldown ends only after its full time has passed.
C10_CooldownRunsFully ==
  /\ [](pc = "delay" => (elapsed + remaining = cooldown /\ cooldown > 0))
  /\ [][(pc = "delay" /\ pc' # "delay")
          => (elapsed = cooldown /\ pc' = "entry" /\ i' = i + 1)]_vars
  /\ [][pc = "delay" => (last' = last /\ wbit' = wbit /\ tx' = tx /\ size' = size)]_vars
  /\ [][(last' # last /\ last' # NoEntry)
          => (pc = "entry" /\ last'.idx = i
              /\ last'.idx = (IF last = NoEntry THEN 0 ELSE last.idx + 1))]_vars

\* the 5000 ms cooldown of the first entry is over and the second entry is next
C10_Witness ==
  /\ pc = "entry" /\ i = 1 /\ size = 2
  /\ cooldown = 5000 /\ elapsed = 5000 /\ remaining = 0

\* C11: a connectToServer call that fails for a missing service or channel
\* has asked for a disconnect of the transport when it returns (the request is
\* pending whenever the transport is still up); a call that finds both
\* channels succeeds whether or not TX can notify, with both channels bound
\* and no disconnect asked for, and it has subscribed exactly when TX can
\* notify.
C11_TeardownAndSubscription ==
  [][connRes' # connRes
       => /\ connRes' \in {"noService", "noRx", "noTx"}
               => (pc' = "retry" /\ discReq' = clientConn')
          /\ connRes' = "ok"
               => (pRxChar' # Null /\ pTxChar' # Null /\ ~discReq' /\ subscribed')
          /\ connRes' = "okNoNotify"
               => (pRxChar' # Null /\ pTxChar' # Null /\ ~discReq' /\ ~subscribed')
          /\ connRes' \in {"ok", "okNoNotify"} => pc' = "poll"]_vars

\* a call found a TX channel that cannot notify and succeeded without subscribing
C11_Witness ==
  /\ connRes = "okNoNotify" /\ pc = "poll"
  /\ connected /\ clientConn /\ ChannelsBound /\ ~subscribed /\ ~discReq

\* whitespace as the claim means it
ClaimSpace(c) == c \in {" ", "\t", "\n", "\r", "\f", "VT"}
Blank(s) == \A k \in 1..Len(s) : ClaimSpace(s[k])

\* the line from its first to its last character that is not whitespace
Stripped(s) ==
  LET ks == {k \in 1..Len(s) : ~ClaimSpace(s[k])}
      lo == CHOOSE k \in ks : \A m \in ks : k <= m
      hi == CHOOSE k \in ks : \A m \in ks : k >= m
  IN [k \in 1..(hi - lo + 1) |-> s[lo + k - 1]]

\* C12: an entry whose class id is not in 0..6 writes nothing and applies no
\* cooldown, whatever its score, and processing it changes neither the link
\* state nor the channels; sendCommandLine writes nothing for a line that is
\* empty or all whitespace, and for any other line (the link being Ready)
\* exactly the line without its leading and trailing whitespace.
C12_UnmappedAndBlankIgnored ==
  /\ []((last # NoEntry /\ last.target \notin 0..6) => (tx = <<>> /\ cooldown = 0))
  /\ [][(last' # last /\ last' # NoEntry /\ last'.target \notin 0..6)
          => UNCHANGED <<linkVars, doConnect, pServerAddress, wbit, remaining, pc>>]_vars
  /\ [](probe.done
          => probe.out = (IF ~probe.ready \/ Blank(probe.in)
                          THEN <<>> ELSE <<Stripped(probe.in)>>))

\* a line with a vertical tab before and a line end after the command was
\* written without them
C12_Witness ==
  /\ probe.done /\ probe.ready
  /\ probe.in = <<VT, "k", "\n">> /\ probe.out = << <<"k">> >>

\* C13: the callbacks only set flags.  The disconnect event clears connected
\* and leaves the channels, the stored address, the connect request and the
\* loop's position and pass alone; the connect event (it arrives within
\* pClient->connect) sets connected and leaves the channels, the stored
\* address and the connect request alone; notifyCallback changes nothing of
\* the program's state; onResult stores the address and sets the connect
\* request for an advertisement that names the target, and changes neither
\* for any other, and it never touches connected or the channels.
C13_CallbacksOnlySetFlags ==
  /\ [][(clientConn /\ ~clientConn')
          => (~connected'
              /\ UNCHANGED <<pRxChar, pTxChar, pServerAddress, doConnect, pClient, pc,
                             passVars, scanVars>>)]_vars
  /\ [][(~clientConn /\ clientConn')
          => (connected'
              /\ UNCHANGED <<pRxChar, pTxChar, pServerAddress, doConnect, passVars,
                             scanVars>>)]_vars
  /\ [][nbit' # nbit
          => UNCHANGED <<pc, doConnect, pServerAddress, linkVars, scanVars, passVars>>]_vars
  /\ [][(sweep' # sweep /\ sweep' # <<>>)
          => LET ad == sweep'[Len(sweep')]
             IN /\ IF IsTarget(ad)
                   THEN pServerAddress' = ad.addr /\ doConnect'
                   ELSE UNCHANGED <<pServerAddress, doConnect>>
                /\ UNCHANGED <<connected, pClient, clientConn, pRxChar, pTxChar, pc>>]_vars

\* a notification arrived while the link was up and a cooldown was running
C13_Witness ==
  /\ nbit = 1 /\ pc = "delay" /\ connected /\ subscribed /\ ChannelsBound
  /\ pServerAddress # Null

\* C14: every call of connectToServer is the first one since the last sweep
\* started, and the connect request is cleared when it is made; the request
\* is set only by an advertisement during a sweep and cleared only by making
\* the call, so each request gets one call and no second call follows before
\* a later sweep, whether the call succeeded or failed.
C14_OneAttemptPerScan ==
  /\ [][(pc = "conn" /\ doConnect /\ pc' # pc)
          => (pc' = "connect" /\ connRes = "none" /\ ~doConnect')]_vars
  /\ [][(pc # "connect" /\ pc' = "connect") => (pc = "conn" /\ doConnect)]_vars
  /\ [][connRes' # connRes
          => ((pc \in ConnPcs /\ connRes = "none" /\ ~doConnect)
              \/ (pc = "top" /\ pc' = "scanning" /\ connRes' = "none"))]_vars
  /\ [][(doConnect' /\ ~doConnect) => (pc = "scanning" /\ sweep' # sweep)]_vars
  /\ [][(doConnect /\ ~doConnect') => (pc = "conn" /\ pc' = "connect")]_vars

\* the loop came round to the connect step after a failed attempt, with the
\* transport still up: no request is pending and the step is skipped
C14_Witness ==
  /\ pc = "conn" /\ connRes \in ConnFailures /\ ~doConnect
  /\ pServerAddress # Null /\ connected

\* C15: every iteration of the loop ends: in every state the loop has a step
\* to take, and from every state it comes back to the top of loop(); a sweep
\* ends, a connection attempt returns, a dispatch pass ends.
C15_IterationTerminates ==
  /\ [](ENABLED LoopStep)
  /\ []<>(pc = "top")
  /\ (pc = "scanning") ~> (pc = "conn")
  /\ (pc \in ConnPcs) ~> (pc = "poll")
  /\ (pc = "entry" \/ pc = "delay") ~> (pc = "cleanup")

\* an iteration that dispatched a full result with a command sent is over
C15_Witness == pc = "top" /\ wbit = 1 /\ connected /\ polled = "no" /\ nbit = 1

\* C16: the classifier is polled only at line 208 with connected true, and
\* not again before the iteration is over; entries are processed and delays
\* run only in an iteration whose poll gave a new result; after a poll that
\* gave none, nothing is processed or written in that iteration.
C16_PollOncePerIteration ==
  /\ [][(polled' # polled /\ polled' # "no")
          => (pc = "poll" /\ connected /\ polled = "no")]_vars
  /\ [](pc \in {"entry", "delay"} => polled = "new")
  /\ [](polled # "no" => pc \in {"entry", "delay", "cleanup"})
  /\ [][polled = "none" => (last' = last /\ wbit' = wbit /\ tx' = tx /\ pc' # "entry")]_vars
  /\ [][(last' # last /\ last' # NoEntry) => polled = "new"]_vars
  /\ [][wbit' # wbit => polled = "new"]_vars

\* a poll gave no result while the link was Ready: the pass is skipped
C16_Witness == polled = "none" /\ pc = "cleanup" /\ Ready /\ last = NoEntry

\* C17: every write goes to a write channel that was discovered on the
\* transport connection that is up when the write is made.
C17_WriteOnCurrentChannel == [][wbit' # wbit => (clientConn /\ pRxChar = gen)]_vars

\* C18: connectToServer is called only with connected false and the transport
\* down; a connect request is never pending while connected is true or the
\* transport is up.
C18_NoAttemptWhileConnected ==
  /\ [](doConnect => (~connected /\ ~clientConn))
  /\ [](pc = "connect" => (~connected /\ ~clientConn /\ ~discReq))

\* a second attempt is about to be made, the pointer of the first connection still set
C18_Witness == pc = "conn" /\ doConnect /\ pClient /\ gen = 1 /\ pRxChar # Null

\* C19: while a connect request is pending an address is stored, and no call
\* of connectToServer returns for want of an address.
C19_RequestHasAddress ==
  /\ doConnect => pServerAddress # Null
  /\ pc = "connect" => pServerAddress # Null
  /\ connRes # "noAddress"

\* a connect request is pending with the address of the advertisement that set it
C19_Witness ==
  /\ pc = "scanned" /\ doConnect /\ sweep # <<>>
  /\ pServerAddress = sweep[Len(sweep)].addr /\ addrBefore = Null

====
